---- MODULE Spec2Model ----
(***************************************************************************)
(* The in-memory bank ledger of src/server/src/bank.rs, the dispatcher of  *)
(* src/server/src/main.rs that serves one command per connection, and the  *)
(* migration of a ledger's history into a second, fresh ledger             *)
(* (src/client/src/main.rs, tests::restore).                               *)
(***************************************************************************)
EXTENDS Integers, Sequences, FiniteSets, TLC

\* ---------------------------------------------------------------- bounds
Names == {"X", "Y"}

MaxHistory == 5

MaxRestore == 2

\* connections clients open to the server
MaxStreams == 3

\* bits of a balance / amount: u32 in the source, scaled down here so that
\* the wrap-around boundary stays within the model checker's integers
Width == 4

U32Modulus == 2 ^ Width

U32Max == U32Modulus - 1

Amounts == {0, 1, U32Max}

\* ------------------------------------------------------------ operations
NoName == ""

Op_CreateAccount(account) ==
    [op |-> "CreateAccount", account |-> account, to |-> NoName, amount |-> 0]

Op_IncreaseAccount(account, amount) ==
    [op |-> "IncreaseAccount", account |-> account, to |-> NoName, amount |-> amount]

Op_DecreaseAccount(account, amount) ==
    [op |-> "DecreaseAccount", account |-> account, to |-> NoName, amount |-> amount]

Op_Transfer(from, to, amount) ==
    [op |-> "Transfer", account |-> from, to |-> to, amount |-> amount]

OperationsOver(amts) ==
    {Op_CreateAccount(a) : a \in Names}
    \cup {Op_IncreaseAccount(a, n) : a \in Names, n \in amts}
    \cup {Op_DecreaseAccount(a, n) : a \in Names, n \in amts}
    \cup {Op_Transfer(a, b, n) : a \in Names, b \in Names, n \in amts}

\* --------------------------------------------------------------- results
\* Result<_, BankError>: Ok(val) or Err(kind(msg | val)); "Panic" when the
\* call unwinds instead of returning.
Ok(v) == [tag |-> "Ok", val |-> v, kind |-> "", msg |-> ""]

Err_AccountAlreadyExists(m) ==
    [tag |-> "Err", val |-> 0, kind |-> "AccountAlreadyExists", msg |-> m]

Err_IncorrectAmount(n) ==
    [tag |-> "Err", val |-> n, kind |-> "IncorrectAmount", msg |-> ""]

Err_InsufficientFunds(n) ==
    [tag |-> "Err", val |-> n, kind |-> "InsufficientFunds", msg |-> ""]

Err_TransferToMyself ==
    [tag |-> "Err", val |-> 0, kind |-> "TransferToMyself", msg |-> ""]

Panicked == [tag |-> "Panic", val |-> 0, kind |-> "", msg |-> ""]

IsOk(r) == r.tag = "Ok"

IsErr(r) == r.tag = "Err"

IsPanic(r) == r.tag = "Panic"

\* ------------------------------------------------------------------ Bank
Bank_new ==
    [accounts |-> {},
     balances |-> << >>,
     account_operations_index |-> << >>,
     history |-> << >>]

\* HashMap::insert
MapInsert(m, k, v) ==
    [x \in (DOMAIN m) \cup {k} |-> IF x = k THEN v ELSE m[x]]

\* u32 `+`: with overflow checks the addition panics, without it wraps
AddOverflows(x, y) == x + y > U32Max

WrappingAdd(x, y) == (x + y) % U32Modulus

\* variant: a zero amount is accepted
check_zero_amount_accepts(amount) == Ok(0)

check_zero_amount(amount) ==
    IF amount = 0 THEN Err_IncorrectAmount(amount) ELSE Ok(0)

check_exists_account(b, account) ==
    IF account \notin b.accounts
    THEN Err_AccountAlreadyExists(
             "Account " \o account \o " does not exist")
    ELSE Ok(0)

\* variant: the id is the length after the push (the `- 1` is missing)
append_history_len(b, operation) ==
    [bank |-> [b EXCEPT !.history = Append(@, operation)],
     id |-> Len(b.history) + 1]

\* variant: the entry is inserted at the front of the history
append_history_front(b, operation) ==
    [bank |-> [b EXCEPT !.history = <<operation>> \o @],
     id |-> Len(b.history)]

\* history ids are 0-based positions
append_history(b, operation) ==
    [bank |-> [b EXCEPT !.history = Append(@, operation)],
     id |-> Len(b.history)]

\* variant: the history length, not the id, is pushed
append_account_index_len(b, account, id) ==
    IF account \in DOMAIN b.account_operations_index
    THEN [b EXCEPT !.account_operations_index[account] = Append(@, id + 1)]
    ELSE [b EXCEPT !.account_operations_index =
                        MapInsert(@, account, <<id + 1>>)]

\* variant: the id replaces the account's index instead of extending it
append_account_index_replace(b, account, id) ==
    [b EXCEPT !.account_operations_index = MapInsert(@, account, <<id>>)]

append_account_index(b, account, id) ==
    IF account \in DOMAIN b.account_operations_index
    THEN [b EXCEPT !.account_operations_index[account] = Append(@, id)]
    ELSE [b EXCEPT !.account_operations_index =
                        MapInsert(@, account, <<id>>)]

get_account_balance(b, account) ==
    IF account \notin b.accounts
    THEN Err_AccountAlreadyExists(
             "Account " \o account \o " does not exist")
    ELSE Ok(b.balances[account])

\* variant: the new account gets no balance entry
create_account_no_balance(b, account) ==
    IF account \notin b.accounts
    THEN LET b1 == [b EXCEPT !.accounts = @ \cup {account}]
             h == append_history(b1, Op_CreateAccount(account))
         IN [bank |-> append_account_index(h.bank, account, h.id),
             res |-> Ok(h.id)]
    ELSE [bank |-> b,
          res |-> Err_AccountAlreadyExists(
                      "Account " \o account \o " already exists")]

\* variant: no existence test, an existing account is created again
create_account_again(b, account) ==
    LET b1 == [b EXCEPT !.accounts = @ \cup {account},
                        !.balances = MapInsert(@, account, 0)]
        h == append_history(b1, Op_CreateAccount(account))
    IN [bank |-> append_account_index(h.bank, account, h.id),
        res |-> Ok(h.id)]

\* variant: the CreateAccount entry is not put into the account's index
create_account_no_index(b, account) ==
    IF account \notin b.accounts
    THEN LET b1 == [b EXCEPT !.accounts = @ \cup {account},
                             !.balances = MapInsert(@, account, 0)]
             h == append_history(b1, Op_CreateAccount(account))
         IN [bank |-> h.bank, res |-> Ok(h.id)]
    ELSE [bank |-> b,
          res |-> Err_AccountAlreadyExists(
                      "Account " \o account \o " already exists")]

create_account(b, account) ==
    IF account \notin b.accounts
    THEN LET b1 == [b EXCEPT !.accounts = @ \cup {account},
                             !.balances = MapInsert(@, account, 0)]
             h == append_history(b1, Op_CreateAccount(account))
         IN [bank |-> append_account_index(h.bank, account, h.id),
             res |-> Ok(h.id)]
    ELSE [bank |-> b,
          res |-> Err_AccountAlreadyExists(
                      "Account " \o account \o " already exists")]

\* variant: the amount is tested before the account's existence
increase_account_zero_check_first(b, account, amount, checks) ==
    IF IsErr(check_zero_amount(amount))
    THEN [bank |-> b, res |-> check_zero_amount(amount)]
    ELSE IF IsErr(check_exists_account(b, account))
    THEN [bank |-> b, res |-> check_exists_account(b, account)]
    ELSE LET current_balance == b.balances[account]
         IN IF checks /\ AddOverflows(current_balance, amount)
            THEN [bank |-> b, res |-> Panicked]
            ELSE LET new_balance == WrappingAdd(current_balance, amount)
                     b1 == [b EXCEPT !.balances =
                                MapInsert(@, account, new_balance)]
                     h == append_history(b1, Op_IncreaseAccount(account, amount))
                 IN [bank |-> append_account_index(h.bank, account, h.id),
                     res |-> Ok(h.id)]

increase_account(b, account, amount, checks) ==
    IF IsErr(check_exists_account(b, account))
    THEN [bank |-> b, res |-> check_exists_account(b, account)]
    ELSE IF IsErr(check_zero_amount(amount))
    THEN [bank |-> b, res |-> check_zero_amount(amount)]
    ELSE LET current_balance == b.balances[account]
         IN IF checks /\ AddOverflows(current_balance, amount)
            THEN [bank |-> b, res |-> Panicked]
            ELSE LET new_balance == WrappingAdd(current_balance, amount)
                     b1 == [b EXCEPT !.balances =
                                MapInsert(@, account, new_balance)]
                     h == append_history(b1, Op_IncreaseAccount(account, amount))
                 IN [bank |-> append_account_index(h.bank, account, h.id),
                     res |-> Ok(h.id)]

\* variant: the balance is written (saturating) before the funds check
decrease_account_late_check(b, account, amount) ==
    IF IsErr(check_exists_account(b, account))
    THEN [bank |-> b, res |-> check_exists_account(b, account)]
    ELSE IF IsErr(check_zero_amount(amount))
    THEN [bank |-> b, res |-> check_zero_amount(amount)]
    ELSE LET current_balance == b.balances[account]
             new_balance == IF current_balance < amount
                            THEN 0 ELSE current_balance - amount
             b1 == [b EXCEPT !.balances = MapInsert(@, account, new_balance)]
         IN IF current_balance < amount
            THEN [bank |-> b1, res |-> Err_InsufficientFunds(amount)]
            ELSE LET h == append_history(b1,
                              Op_DecreaseAccount(account, amount))
                 IN [bank |-> append_account_index(h.bank, account, h.id),
                     res |-> Ok(h.id)]

\* variant: no funds test, the subtraction saturates at 0
decrease_account_saturating(b, account, amount) ==
    IF IsErr(check_exists_account(b, account))
    THEN [bank |-> b, res |-> check_exists_account(b, account)]
    ELSE IF IsErr(check_zero_amount(amount))
    THEN [bank |-> b, res |-> check_zero_amount(amount)]
    ELSE LET current_balance == b.balances[account]
             new_balance == IF current_balance < amount
                            THEN 0 ELSE current_balance - amount
             b1 == [b EXCEPT !.balances = MapInsert(@, account, new_balance)]
             h == append_history(b1, Op_DecreaseAccount(account, amount))
         IN [bank |-> append_account_index(h.bank, account, h.id),
             res |-> Ok(h.id)]

decrease_account(b, account, amount) ==
    IF IsErr(check_exists_account(b, account))
    THEN [bank |-> b, res |-> check_exists_account(b, account)]
    ELSE IF IsErr(check_zero_amount(amount))
    THEN [bank |-> b, res |-> check_zero_amount(amount)]
    ELSE LET current_balance == b.balances[account]
         IN IF current_balance < amount
            THEN [bank |-> b, res |-> Err_InsufficientFunds(amount)]
            ELSE LET new_balance == current_balance - amount
                     b1 == [b EXCEPT !.balances =
                                MapInsert(@, account, new_balance)]
                     h == append_history(b1, Op_DecreaseAccount(account, amount))
                 IN [bank |-> append_account_index(h.bank, account, h.id),
                     res |-> Ok(h.id)]

\* variant: the self-transfer test comes after the existence and amount tests
transfer_self_check_late(b, from, to, amount, checks) ==
    IF IsErr(check_exists_account(b, from))
    THEN [bank |-> b, res |-> check_exists_account(b, from)]
    ELSE IF IsErr(check_exists_account(b, to))
    THEN [bank |-> b, res |-> check_exists_account(b, to)]
    ELSE IF IsErr(check_zero_amount(amount))
    THEN [bank |-> b, res |-> check_zero_amount(amount)]
    ELSE IF from = to
    THEN [bank |-> b, res |-> Err_TransferToMyself]
    ELSE LET current_balance_from == b.balances[from]
         IN IF current_balance_from < amount
            THEN [bank |-> b, res |-> Err_InsufficientFunds(amount)]
            ELSE LET new_balance_from == current_balance_from - amount
                     b1 == [b EXCEPT !.balances =
                                MapInsert(@, from, new_balance_from)]
                     current_balance_to == b1.balances[to]
                 IN IF checks /\ AddOverflows(current_balance_to, amount)
                    THEN [bank |-> b1, res |-> Panicked]
                    ELSE LET new_balance_to ==
                                 WrappingAdd(current_balance_to, amount)
                             b2 == [b1 EXCEPT !.balances =
                                        MapInsert(@, to, new_balance_to)]
                             h == append_history(b2,
                                      Op_Transfer(from, to, amount))
                             b3 == append_account_index(h.bank, from, h.id)
                         IN [bank |-> append_account_index(b3, to, h.id),
                             res |-> Ok(0)]

transfer(b, from, to, amount, checks) ==
    IF from = to
    THEN [bank |-> b, res |-> Err_TransferToMyself]
    ELSE IF IsErr(check_exists_account(b, from))
    THEN [bank |-> b, res |-> check_exists_account(b, from)]
    ELSE IF IsErr(check_exists_account(b, to))
    THEN [bank |-> b, res |-> check_exists_account(b, to)]
    ELSE IF IsErr(check_zero_amount(amount))
    THEN [bank |-> b, res |-> check_zero_amount(amount)]
    ELSE LET current_balance_from == b.balances[from]
         IN IF current_balance_from < amount
            THEN [bank |-> b, res |-> Err_InsufficientFunds(amount)]
            ELSE LET new_balance_from == current_balance_from - amount
                     b1 == [b EXCEPT !.balances =
                                MapInsert(@, from, new_balance_from)]
                     current_balance_to == b1.balances[to]
                 IN IF checks /\ AddOverflows(current_balance_to, amount)
                    THEN \* unwinds after `from` was written
                         [bank |-> b1, res |-> Panicked]
                    ELSE LET new_balance_to ==
                                 WrappingAdd(current_balance_to, amount)
                             b2 == [b1 EXCEPT !.balances =
                                        MapInsert(@, to, new_balance_to)]
                             h == append_history(b2,
                                      Op_Transfer(from, to, amount))
                             b3 == append_account_index(h.bank, from, h.id)
                         IN [bank |-> append_account_index(b3, to, h.id),
                             res |-> Ok(0)]

\* variant: the newest entry is left out
get_history_but_last(b) ==
    IF b.history = << >> THEN << >>
    ELSE SubSeq(b.history, 1, Len(b.history) - 1)

get_history(b) == b.history

\* variant: an account without index yields Some(empty) instead of None
get_account_history_or_empty(b, account) ==
    IF account \in DOMAIN b.account_operations_index
    THEN [some |-> TRUE,
          ops |-> [i \in 1..Len(b.account_operations_index[account]) |->
                      b.history[b.account_operations_index[account][i] + 1]]]
    ELSE [some |-> TRUE, ops |-> << >>]

\* Option<Vec<Operation>>
get_account_history(b, account) ==
    IF account \in DOMAIN b.account_operations_index
    THEN [some |-> TRUE,
          ops |-> [i \in 1..Len(b.account_operations_index[account]) |->
                      b.history[b.account_operations_index[account][i] + 1]]]
    ELSE [some |-> FALSE, ops |-> << >>]

\* variant: the IncreaseAccount arm replays a decrease
restore_step_increase_as_decrease(b, operation, checks) ==
    LET r == CASE operation.op = "CreateAccount" ->
                    create_account(b, operation.account)
               [] operation.op \in {"IncreaseAccount", "DecreaseAccount"} ->
                    decrease_account(b, operation.account, operation.amount)
               [] operation.op = "Transfer" ->
                    transfer(b, operation.account, operation.to,
                             operation.amount, checks)
    IN [bank |-> r.bank, res |-> r.res,
        panics |-> IsPanic(r.res)
                   \/ (operation.op = "DecreaseAccount" /\ IsErr(r.res))]

\* one arm of the `match operation` in restore: the result of every arm is
\* discarded, the DecreaseAccount arm unwraps it first (panics on Err)
restore_step(b, operation, checks) ==
    LET r == CASE operation.op = "CreateAccount" ->
                    create_account(b, operation.account)
               [] operation.op = "IncreaseAccount" ->
                    increase_account(b, operation.account, operation.amount,
                                     checks)
               [] operation.op = "DecreaseAccount" ->
                    decrease_account(b, operation.account, operation.amount)
               [] operation.op = "Transfer" ->
                    transfer(b, operation.account, operation.to,
                             operation.amount, checks)
    IN [bank |-> r.bank, res |-> r.res,
        panics |-> IsPanic(r.res)
                   \/ (operation.op = "DecreaseAccount" /\ IsErr(r.res))]

RECURSIVE restore_loop(_, _, _, _, _)
restore_loop(b, history, i, steps, checks) ==
    IF i > Len(history)
    THEN [bank |-> b, steps |-> steps, panicked |-> FALSE]
    ELSE LET r == restore_step(b, history[i], checks)
         IN IF r.panics
            THEN [bank |-> r.bank, steps |-> Append(steps, r.res),
                  panicked |-> TRUE]
            ELSE restore_loop(r.bank, history, i + 1,
                              Append(steps, r.res), checks)

\* steps: the result of each replayed call, in order, up to a panic
restore(b, history, checks) == restore_loop(b, history, 1, << >>, checks)

\* ------------------------------------------------------------- commands
Command(op, account, to, amount, history) ==
    [op |-> op, account |-> account, to |-> to, amount |-> amount,
     history |-> history]

NoCommand == Command("", NoName, NoName, 0, << >>)

NoResult == [tag |-> "None", val |-> 0, kind |-> "", msg |-> ""]

\* Response::<variant>(..); variant "" when the handler unwound and no
\* response was written
Response(variant, result, ops, some) ==
    [variant |-> variant, result |-> result, ops |-> ops, some |-> some]

NoResponse == Response("", NoResult, << >>, FALSE)

\* sequences over S of length 0..n
RECURSIVE SeqsUpTo(_, _)
SeqsUpTo(S, n) ==
    IF n = 0 THEN {<< >>}
    ELSE LET shorter == SeqsUpTo(S, n - 1)
         IN shorter \cup {Append(q, x) : q \in shorter, x \in S}

\* the Operations a Restore request may list: one of each kind
RestoreOperations ==
    {Op_CreateAccount("X"), Op_IncreaseAccount("X", 1),
     Op_DecreaseAccount("X", 1), Op_Transfer("X", "Y", 1)}

RestoreInputs == SeqsUpTo(RestoreOperations, MaxRestore)

\* the arm of handle_request's `match command` for the command that
\* carries `operation`: the Bank method is called and its result returned
handle_operation(b, operation, checks) ==
    CASE operation.op = "CreateAccount" ->
            create_account(b, operation.account)
      [] operation.op = "IncreaseAccount" ->
            increase_account(b, operation.account, operation.amount, checks)
      [] operation.op = "DecreaseAccount" ->
            decrease_account(b, operation.account, operation.amount)
      [] operation.op = "Transfer" ->
            transfer(b, operation.account, operation.to, operation.amount,
                     checks)

\* main's loop serving one request per operation of `ops`, in order; a
\* panic ends the process and the remaining requests are never served
RECURSIVE submit_each(_, _, _, _)
submit_each(b, ops, i, checks) ==
    IF i > Len(ops)
    THEN [bank |-> b, panicked |-> FALSE]
    ELSE LET r == handle_operation(b, ops[i], checks)
         IN IF IsPanic(r.res)
            THEN [bank |-> r.bank, panicked |-> TRUE]
            ELSE submit_each(r.bank, ops, i + 1, checks)

\* ---------------------------------------------------------------- state
VARIABLES
    bank,             \* main: the server's Bank
    alive,            \* the server process has not panicked
    overflow_checks,  \* build profile: `+` on u32 panics (TRUE) or wraps
    last,             \* the last request handled: command, Bank before it,
                      \* response written, results of a restore's calls
    client_pc,        \* client main: "commands" until it fetches the
                      \* history, "restored" after restoring it elsewhere
    client_history,   \* client main: the history fetched from the server
    new_bank,         \* the second server's Bank after restore(history)
    streams,          \* the TCP connections: what each client did and got,
                      \* and how far the server is with it
    listener,         \* connections made and not yet accepted, in order
    server_pc,        \* main's position: "accept", "read" or "write"
    stream,           \* the connection main is handling, 0 when none
    response_json,    \* the response main is about to write
    served            \* the connections whose command was run, in order

\* the variables of the request-level view and of the connection-level view
request_vars == <<last, client_pc, client_history, new_bank>>

net_vars == <<streams, listener, server_pc, stream, response_json, served>>

vars ==
    <<bank, alive, overflow_checks, last, client_pc, client_history, new_bank,
      streams, listener, server_pc, stream, response_json, served>>

NoRestore == [bank |-> Bank_new, steps |-> << >>, panicked |-> FALSE]

\* the connections clients may open
Streams == 1..MaxStreams

\* a connection nobody opened yet: `client` is "unused", "open" or "closed",
\* `sent` the command the client wrote, `received` the response it read,
\* `server` is "none", "backlog", "handling" or "done"
NoStream ==
    [client |-> "unused", sent |-> NoCommand, received |-> NoResponse,
     server |-> "none"]

Init ==
    /\ bank = Bank_new
    /\ alive = TRUE
    /\ overflow_checks \in BOOLEAN
    /\ last = [cmd |-> NoCommand, pre |-> Bank_new, response |-> NoResponse,
               steps |-> << >>]
    /\ client_pc = "commands"
    /\ client_history = << >>
    /\ new_bank = NoRestore
    /\ streams = [c \in Streams |-> NoStream]
    /\ listener = << >>
    /\ server_pc = "accept"
    /\ stream = 0
    /\ response_json = NoResponse
    /\ served = << >>

\* the client sent `cmd`; handle_request ran it on the Bank, which is now
\* b; `response` is written back unless the call panicked, which ends the
\* process. Requests are served while the history is shorter than
\* MaxHistory and could not grow beyond it.
Serve(cmd, b, response, steps, panicked) ==
    /\ alive
    /\ client_pc = "commands"
    /\ Len(bank.history) < MaxHistory
    /\ Len(bank.history) + Len(cmd.history) <= MaxHistory
    /\ bank' = b
    /\ alive' = ~panicked
    /\ last' = [cmd |-> cmd, pre |-> bank,
                response |-> IF panicked THEN NoResponse ELSE response,
                steps |-> steps]
    /\ UNCHANGED <<overflow_checks, client_pc, client_history, new_bank>>
    /\ UNCHANGED net_vars

CreateAccount ==
    \E account \in Names :
        LET r == create_account(bank, account)
        IN Serve(Command("CreateAccount", account, NoName, 0, << >>), r.bank,
                 Response("Account", r.res, << >>, FALSE), << >>, FALSE)

IncreaseAccount ==
    \E account \in Names, amount \in Amounts :
        LET r == increase_account(bank, account, amount, overflow_checks)
        IN Serve(Command("IncreaseAccount", account, NoName, amount, << >>),
                 r.bank, Response("OperationResult", r.res, << >>, FALSE),
                 << >>, IsPanic(r.res))

DecreaseAccount ==
    \E account \in Names, amount \in Amounts :
        LET r == decrease_account(bank, account, amount)
        IN Serve(Command("DecreaseAccount", account, NoName, amount, << >>),
                 r.bank, Response("OperationResult", r.res, << >>, FALSE),
                 << >>, FALSE)

Transfer ==
    \E from \in Names, to \in Names, amount \in Amounts :
        LET r == transfer(bank, from, to, amount, overflow_checks)
        IN Serve(Command("Transfer", from, to, amount, << >>), r.bank,
                 Response("TransferResult", r.res, << >>, FALSE),
                 << >>, IsPanic(r.res))

GetHistory ==
    Serve(Command("GetHistory", NoName, NoName, 0, << >>), bank,
          Response("History", NoResult, get_history(bank), FALSE),
          << >>, FALSE)

GetAccountBalance ==
    \E account \in Names :
        Serve(Command("GetAccountBalance", account, NoName, 0, << >>), bank,
              Response("AccountBalance", get_account_balance(bank, account),
                       << >>, FALSE),
              << >>, FALSE)

GetAccountHistory ==
    \E account \in Names :
        LET h == get_account_history(bank, account)
        IN Serve(Command("GetAccountHistory", account, NoName, 0, << >>),
                 bank, Response("AccountHistory", NoResult, h.ops, h.some),
                 << >>, FALSE)

Restore ==
    \E history \in RestoreInputs :
        LET r == restore(bank, history, overflow_checks)
        IN Serve(Command("Restore", NoName, NoName, 0, history), r.bank,
                 Response("Restore", NoResult, << >>, FALSE),
                 r.steps, r.panicked)

\* client main / tests::restore: fetch the server's history (a GetHistory
\* request) and restore it into a second, fresh Bank
Migrate ==
    /\ alive
    /\ client_pc = "commands"
    /\ client_pc' = "restored"
    /\ client_history' = get_history(bank)
    /\ new_bank' = restore(Bank_new, get_history(bank), overflow_checks)
    /\ last' = [cmd |-> Command("GetHistory", NoName, NoName, 0, << >>),
                pre |-> bank,
                response |-> Response("History", NoResult, get_history(bank),
                                      FALSE),
                steps |-> << >>]
    /\ UNCHANGED <<bank, alive, overflow_checks>>
    /\ UNCHANGED net_vars

Next ==
    \/ CreateAccount
    \/ IncreaseAccount
    \/ DecreaseAccount
    \/ Transfer
    \/ GetHistory
    \/ GetAccountBalance
    \/ GetAccountHistory
    \/ Restore
    \/ Migrate

Spec == Init /\ [][Next]_vars

\* ------------------------------------------------- connections (main.rs)
\* handle_request from the deserialised command on: the one Bank call of
\* the command's match arm and the Response built from its result;
\* `panicked` when the call unwound instead of returning
handle_request(b, command, checks) ==
    CASE command.op = "CreateAccount" ->
             LET r == create_account(b, command.account)
             IN [bank |-> r.bank, panicked |-> FALSE,
                 response |-> Response("Account", r.res, << >>, FALSE)]
      [] command.op = "IncreaseAccount" ->
             LET r == increase_account(b, command.account, command.amount,
                                       checks)
             IN [bank |-> r.bank, panicked |-> IsPanic(r.res),
                 response |-> Response("OperationResult", r.res, << >>,
                                       FALSE)]
      [] command.op = "DecreaseAccount" ->
             LET r == decrease_account(b, command.account, command.amount)
             IN [bank |-> r.bank, panicked |-> FALSE,
                 response |-> Response("OperationResult", r.res, << >>,
                                       FALSE)]
      [] command.op = "Transfer" ->
             LET r == transfer(b, command.account, command.to,
                               command.amount, checks)
             IN [bank |-> r.bank, panicked |-> IsPanic(r.res),
                 response |-> Response("TransferResult", r.res, << >>,
                                       FALSE)]
      [] command.op = "GetHistory" ->
             [bank |-> b, panicked |-> FALSE,
              response |-> Response("History", NoResult, get_history(b),
                                    FALSE)]
      [] command.op = "GetAccountBalance" ->
             [bank |-> b, panicked |-> FALSE,
              response |-> Response("AccountBalance",
                                    get_account_balance(b, command.account),
                                    << >>, FALSE)]
      [] command.op = "GetAccountHistory" ->
             LET h == get_account_history(b, command.account)
             IN [bank |-> b, panicked |-> FALSE,
                 response |-> Response("AccountHistory", NoResult, h.ops,
                                       h.some)]
      [] command.op = "Restore" ->
             LET r == restore(b, command.history, checks)
             IN [bank |-> r.bank, panicked |-> r.panicked,
                 response |-> Response("Restore", NoResult, << >>, FALSE)]

\* the well-formed commands clients send over their connections
Commands ==
    {Command("CreateAccount", "X", NoName, 0, << >>),
     Command("IncreaseAccount", "X", NoName, U32Max, << >>),
     Command("DecreaseAccount", "X", NoName, 1, << >>),
     Command("GetAccountBalance", "X", NoName, 0, << >>)}

\* banklib: TcpStream::connect; the connection waits in the listener's
\* backlog whatever the server is doing. Connections are numbered in the
\* order they are made.
Connect ==
    \E c \in Streams :
        /\ alive
        /\ streams[c].client = "unused"
        /\ \A d \in Streams : d < c => streams[d].client # "unused"
        /\ streams' = [streams EXCEPT ![c].client = "open",
                                      ![c].server = "backlog"]
        /\ listener' = Append(listener, c)
        /\ UNCHANGED <<bank, alive, overflow_checks, server_pc, stream,
                       response_json, served>>
        /\ UNCHANGED request_vars

\* banklib: stream.write_all(command); a client may also never get here
Send ==
    \E c \in Streams, command \in Commands :
        /\ alive
        /\ streams[c].client = "open"
        /\ streams[c].sent = NoCommand
        /\ streams' = [streams EXCEPT ![c].sent = command]
        /\ UNCHANGED <<bank, alive, overflow_checks, listener, server_pc,
                       stream, response_json, served>>
        /\ UNCHANGED request_vars

\* a client drops its stream, with or without having written or read
Close ==
    \E c \in Streams :
        /\ alive
        /\ streams[c].client = "open"
        /\ streams' = [streams EXCEPT ![c].client = "closed"]
        /\ UNCHANGED <<bank, alive, overflow_checks, listener, server_pc,
                       stream, response_json, served>>
        /\ UNCHANGED request_vars

\* variant: a connection is accepted while the previous one is still being
\* handled (a handler spawned per connection)
Accept_while_handling ==
    /\ alive
    /\ listener # << >>
    /\ stream' = Head(listener)
    /\ listener' = Tail(listener)
    /\ streams' = [streams EXCEPT ![Head(listener)].server = "handling"]
    /\ server_pc' = "read"
    /\ UNCHANGED <<bank, alive, overflow_checks, response_json, served>>
    /\ UNCHANGED request_vars

\* main: the next item of listener.incoming(), taken only when the loop
\* body of the previous connection has finished
Accept ==
    /\ alive
    /\ server_pc = "accept"
    /\ listener # << >>
    /\ stream' = Head(listener)
    /\ listener' = Tail(listener)
    /\ streams' = [streams EXCEPT ![Head(listener)].server = "handling"]
    /\ server_pc' = "read"
    /\ UNCHANGED <<bank, alive, overflow_checks, response_json, served>>
    /\ UNCHANGED request_vars

\* handle_request: stream.read blocks until the client has written or has
\* closed; of a closed stream it reads 0 bytes, which from_slice rejects and
\* unwrap turns into a panic; a command is run on the Bank
HandleRequest ==
    /\ alive
    /\ server_pc = "read"
    /\ streams[stream].sent # NoCommand \/ streams[stream].client = "closed"
    /\ IF streams[stream].sent = NoCommand
       THEN /\ alive' = FALSE
            /\ UNCHANGED <<bank, server_pc, response_json, served>>
       ELSE LET r == handle_request(bank, streams[stream].sent,
                                    overflow_checks)
            IN /\ bank' = r.bank
               /\ alive' = ~r.panicked
               /\ served' = Append(served, stream)
               /\ response_json' = IF r.panicked THEN NoResponse
                                   ELSE r.response
               /\ server_pc' = IF r.panicked THEN "read" ELSE "write"
    /\ UNCHANGED <<overflow_checks, streams, listener, stream>>
    /\ UNCHANGED request_vars

\* main: stream.write(response_json), a failure of which is only logged;
\* the stream is dropped at the end of the loop body
WriteResponse ==
    /\ alive
    /\ server_pc = "write"
    /\ streams' = [streams EXCEPT
                       ![stream].server = "done",
                       ![stream].received =
                           IF streams[stream].client = "open"
                           THEN response_json ELSE @]
    /\ server_pc' = "accept"
    /\ stream' = 0
    /\ response_json' = NoResponse
    /\ UNCHANGED <<bank, alive, overflow_checks, listener, served>>
    /\ UNCHANGED request_vars

NextNet ==
    \/ Connect
    \/ Send
    \/ Close
    \/ Accept
    \/ HandleRequest
    \/ WriteResponse

SpecNet == Init /\ [][NextNet]_vars

\* the server process keeps running: each step of main's loop that can be
\* taken is taken; clients are under no obligation to write or to close
SpecNetFair ==
    /\ Init
    /\ [][NextNet]_vars
    /\ WF_vars(Accept)
    /\ WF_vars(HandleRequest)
    /\ WF_vars(WriteResponse)

\* ================================================================ claims
MutatingOps == {"CreateAccount", "IncreaseAccount", "DecreaseAccount", "Transfer"}

\* the last request was the direct command `op` and returned an error
LastRejected(op) == last.cmd.op = op /\ IsErr(last.response.result)

\* the last request was the direct command `op` and returned Ok
LastSucceeded(op) == last.cmd.op = op /\ IsOk(last.response.result)

\* C1: a CreateAccount, Increase, Decrease or Transfer call that returns an
\* error leaves accounts, balances, history and indices as they were: this
\* holds of the last request served and of every call that could be made in
\* the current state.
C1_RejectedCallLeavesStateUnchanged ==
    /\ (last.cmd.op \in MutatingOps /\ IsErr(last.response.result))
           => bank = last.pre
    /\ \A operation \in OperationsOver(Amounts) :
           LET r == handle_operation(bank, operation, overflow_checks)
           IN IsErr(r.res) => r.bank = bank

C1_Witness ==
    /\ LastRejected("Transfer")
    /\ last.response.result.kind = "InsufficientFunds"
    /\ Len(bank.history) >= 3
    /\ bank = last.pre

\* the arguments of the last Transfer request
TFrom == last.cmd.account

TTo == last.cmd.to

TAmount == last.cmd.amount

\* the Bank `after` is the Bank `before` with Transfer(from, to, n) fully
\* applied: exact debit and credit, one history entry, its id in both indices
TransferApplied(before, after, from, to, n) ==
    /\ after.accounts = before.accounts
    /\ DOMAIN after.balances = DOMAIN before.balances
    /\ after.balances[from] = before.balances[from] - n
    /\ after.balances[to] = before.balances[to] + n
    /\ \A a \in DOMAIN before.balances \ {from, to} :
           after.balances[a] = before.balances[a]
    /\ after.history = Append(before.history, Op_Transfer(from, to, n))
    /\ DOMAIN after.account_operations_index
           = DOMAIN before.account_operations_index
    /\ \A a \in DOMAIN before.account_operations_index :
           after.account_operations_index[a] =
               IF a \in {from, to}
               THEN Append(before.account_operations_index[a],
                           Len(before.history))
               ELSE before.account_operations_index[a]

\* C2: a successful Transfer(from, to, n) decreases balance(from) by exactly
\* n, increases balance(to) by exactly n, changes nothing else, appends one
\* Transfer entry and indexes its id under from and under to.
C2_SuccessfulTransferEffect ==
    LastSucceeded("Transfer")
        => TransferApplied(last.pre, bank, TFrom, TTo, TAmount)

\* C3: Transfer fully applies or fully rejects: whenever the last Transfer
\* request left `from` with a smaller balance, `to` was credited the same
\* amount and the entry and both index entries were recorded.
C3_TransferAllOrNothing ==
    (/\ last.cmd.op = "Transfer"
     /\ TFrom \in DOMAIN last.pre.balances
     /\ bank.balances[TFrom] < last.pre.balances[TFrom])
        => TransferApplied(last.pre, bank, TFrom, TTo, TAmount)

\* the ledger invariant of the data model on a Bank
BalancesConsistent(b) ==
    /\ DOMAIN b.balances = b.accounts
    /\ \A a \in DOMAIN b.balances : b.balances[a] \in Nat

\* C4: a balance is defined for a name iff the name is in the account set,
\* and every balance is a non-negative integer, in the server's ledger and
\* in a restored one.
C4_BalanceDefinedIffAccountNonNegative ==
    /\ BalancesConsistent(bank)
    /\ BalancesConsistent(new_bank.bank)

C4_Witness ==
    /\ LastSucceeded("DecreaseAccount")
    /\ bank.accounts = Names
    /\ bank.balances[last.cmd.account] = 0
    /\ last.pre.balances[last.cmd.account] > 0

\* C5: restoring the history H of a ledger that started empty into a fresh
\* ledger rejects no step and yields the history H, the same account set and
\* the same balance for every account.
C5_ReplayReproducesLedger ==
    client_pc = "restored"
        => /\ ~new_bank.panicked
           /\ Len(new_bank.steps) = Len(client_history)
           /\ \A i \in 1..Len(new_bank.steps) : IsOk(new_bank.steps[i])
           /\ client_history = get_history(bank)
           /\ get_history(new_bank.bank) = client_history
           /\ new_bank.bank.accounts = bank.accounts
           /\ \A a \in bank.accounts :
                  get_account_balance(new_bank.bank, a)
                      = get_account_balance(bank, a)

C5_Witness ==
    /\ client_pc = "restored"
    /\ Len(client_history) >= 5
    /\ \E i \in 1..Len(client_history) : client_history[i].op = "Transfer"
    /\ \E i \in 1..Len(client_history) :
           client_history[i].op = "DecreaseAccount"
    /\ get_history(new_bank.bank) = client_history

\* C6: Restore(ops) leaves the ledger as submitting each entry of ops in
\* order through its command does, all four kinds alike.
C6_RestoreEqualsSubmittingEach ==
    last.cmd.op = "Restore"
        => bank = submit_each(last.pre, last.cmd.history, 1,
                              overflow_checks).bank

\* C7: Restore never silently skips a rejected step: when a replayed call
\* was rejected, Restore does not apply a later operation and answer as if
\* it had succeeded.
C7_RestoreNeverSkipsRejectedStep ==
    last.cmd.op = "Restore"
        => ~ \E i \in 1..Len(last.steps) :
                 /\ IsErr(last.steps[i])
                 /\ \E j \in (i + 1)..Len(last.steps) : IsOk(last.steps[j])
                 /\ last.response.variant = "Restore"

\* C8: no rejected operation is fatal: after a rejection, direct or of a
\* step inside Restore, the server is still serving and the ledger
\* invariant holds.
C8_RejectionNotFatal ==
    (\/ IsErr(last.response.result)
     \/ \E i \in 1..Len(last.steps) : IsErr(last.steps[i]))
        => alive /\ BalancesConsistent(bank)

\* the last request named an account that does not exist and was not
\* a self-transfer
ReferencesUnknownAccount ==
    \/ /\ last.cmd.op \in {"GetAccountBalance", "IncreaseAccount",
                           "DecreaseAccount"}
       /\ last.cmd.account \notin last.pre.accounts
    \/ /\ last.cmd.op = "Transfer"
       /\ last.cmd.account # last.cmd.to
       /\ \/ last.cmd.account \notin last.pre.accounts
          \/ last.cmd.to \notin last.pre.accounts

\* C9: GetBalance, Increase, Decrease and Transfer naming an unknown account
\* fail with the kind AccountNotFound, which is not the kind
\* AccountAlreadyExists that CreateAccount returns for a known name.
C9_UnknownAccountIsAccountNotFound ==
    ReferencesUnknownAccount
        => /\ IsErr(last.response.result)
           /\ last.response.result.kind = "AccountNotFound"
           /\ last.response.result.kind
                  # Err_AccountAlreadyExists("already exists").kind

\* C10: an Increase whose result would exceed the largest balance is
\* rejected with InvalidAmount (IncorrectAmount in the source) and changes
\* nothing; no Increase and no credit of a Transfer stores a balance smaller
\* than the one before.
C10_BalanceArithmeticNeverWraps ==
    /\ (/\ last.cmd.op = "IncreaseAccount"
        /\ last.cmd.account \in last.pre.accounts
        /\ last.pre.balances[last.cmd.account] + last.cmd.amount > U32Max)
           => /\ IsErr(last.response.result)
              /\ last.response.result.kind = "IncorrectAmount"
              /\ bank = last.pre
    /\ LastSucceeded("Transfer")
           => bank.balances[TTo] >= last.pre.balances[TTo]

\* the positions (1-based) of the history entries equal to `operation`
PositionsOf(history, operation) ==
    {i \in 1..Len(history) : history[i] = operation}

\* C11: CreateAccount(A) succeeds exactly once: on a new name it adds A with
\* balance 0 and one CreateAccount(A) entry indexed under A; on a known name
\* it fails with AccountAlreadyExists and changes nothing; the history never
\* holds two CreateAccount(A) entries.
C11_CreateAccountSucceedsOnce ==
    /\ \A a \in Names :
           Cardinality(PositionsOf(bank.history, Op_CreateAccount(a))) <= 1
    /\ last.cmd.op = "CreateAccount"
           => LET a == last.cmd.account
                  id == Len(last.pre.history)
              IN IF a \in last.pre.accounts
                 THEN /\ LastRejected("CreateAccount")
                      /\ last.response.result.kind = "AccountAlreadyExists"
                      /\ bank = last.pre
                 ELSE /\ last.response.result = Ok(id)
                      /\ bank.accounts = last.pre.accounts \cup {a}
                      /\ bank.balances = MapInsert(last.pre.balances, a, 0)
                      /\ bank.history
                             = Append(last.pre.history, Op_CreateAccount(a))
                      /\ a \notin DOMAIN last.pre.account_operations_index
                      /\ bank.account_operations_index
                             = MapInsert(last.pre.account_operations_index,
                                         a, <<id>>)

C11_Witness ==
    /\ LastRejected("CreateAccount")
    /\ last.cmd.account \in last.pre.accounts
    /\ Len(bank.history) >= 2
    /\ Cardinality(PositionsOf(bank.history,
                               Op_CreateAccount(last.cmd.account))) = 1

\* the Operation that a successful command `cmd` records
OperationOf(cmd) ==
    [op |-> cmd.op, account |-> cmd.account, to |-> cmd.to,
     amount |-> cmd.amount]

\* C12: OperationIds are sequential from 0: a successful CreateAccount,
\* Increase or Decrease returns the history length before the call, and the
\* history entry at that position is the operation just applied.
C12_IdsSequentialFromZero ==
    (/\ last.cmd.op \in {"CreateAccount", "IncreaseAccount",
                         "DecreaseAccount"}
     /\ IsOk(last.response.result))
        => LET id == last.response.result.val
           IN /\ id = Len(last.pre.history)
              /\ Len(bank.history) = id + 1
              /\ bank.history[id + 1] = OperationOf(last.cmd)
              /\ (last.pre = Bank_new => id = 0)

C12_Witness ==
    /\ LastSucceeded("DecreaseAccount")
    /\ last.response.result.val = 3
    /\ bank.history[4] = OperationOf(last.cmd)

IsPrefix(s, t) ==
    /\ Len(s) <= Len(t)
    /\ \A i \in 1..Len(s) : s[i] = t[i]

\* the number of calls of a restore that returned Ok
OkSteps(steps) == Cardinality({i \in 1..Len(steps) : IsOk(steps[i])})

\* C13: the history is append-only: across any request (rejected calls and
\* Restore included) the history before it is a prefix of the history after
\* it, and each successful mutation appends exactly one entry.
C13_HistoryAppendOnly ==
    /\ IsPrefix(last.pre.history, bank.history)
    /\ last.cmd.op \in MutatingOps
           => Len(bank.history)
                  = Len(last.pre.history)
                        + (IF IsOk(last.response.result) THEN 1 ELSE 0)
    /\ last.cmd.op = "Restore"
           => Len(bank.history)
                  = Len(last.pre.history) + OkSteps(last.steps)
    /\ last.cmd.op \in {"GetHistory", "GetAccountBalance",
                        "GetAccountHistory"}
           => bank.history = last.pre.history

C13_Witness ==
    /\ last.cmd.op = "Restore"
    /\ Len(last.pre.history) >= 2
    /\ OkSteps(last.steps) = 1
    /\ Len(last.steps) = 2
    /\ Len(bank.history) = Len(last.pre.history) + 1

\* the last request was an Increase, Decrease or Transfer of amount 0
LastZeroAmount ==
    /\ last.cmd.op \in {"IncreaseAccount", "DecreaseAccount", "Transfer"}
    /\ last.cmd.amount = 0

\* every account the last request names existed, and a Transfer named two
\* different accounts
LastAccountsValid ==
    /\ last.cmd.account \in last.pre.accounts
    /\ last.cmd.op = "Transfer"
           => /\ last.cmd.to \in last.pre.accounts
              /\ last.cmd.to # last.cmd.account

\* C14 as stated: Increase, Decrease and Transfer with amount 0 fail with
\* InvalidAmount (IncorrectAmount in the source) for every choice of account
\* arguments, and add no history entry.
C14_ZeroAmountAlwaysInvalidAmount ==
    LastZeroAmount
        => /\ IsErr(last.response.result)
           /\ last.response.result.kind = "IncorrectAmount"
           /\ bank.history = last.pre.history

\* C14 amended: Increase, Decrease and Transfer with amount 0 always fail
\* and add no history entry; the error is InvalidAmount whenever every
\* account named exists and a Transfer names two different accounts.
C14_ZeroAmountRejected ==
    LastZeroAmount
        => /\ IsErr(last.response.result)
           /\ bank = last.pre
           /\ LastAccountsValid
                  => last.response.result = Err_IncorrectAmount(0)

C14_Witness ==
    /\ LastZeroAmount
    /\ last.cmd.op = "Transfer"
    /\ LastAccountsValid
    /\ last.response.result = Err_IncorrectAmount(0)
    /\ Len(bank.history) >= 3

\* C15: Transfer(A, A, n) fails with TransferToSelf (TransferToMyself in the
\* source) for every n, zero and amounts above the balance included, whether
\* or not A exists, and changes nothing: for the last request served and for
\* every self-transfer that could be made in the current state.
C15_SelfTransferAlwaysRejected ==
    /\ (last.cmd.op = "Transfer" /\ last.cmd.account = last.cmd.to)
           => /\ last.response.result = Err_TransferToMyself
              /\ bank = last.pre
    /\ \A a \in Names, n \in Amounts :
           transfer(bank, a, a, n, overflow_checks)
               = [bank |-> bank, res |-> Err_TransferToMyself]

C15_Witness ==
    /\ last.cmd.op = "Transfer"
    /\ last.cmd.account = last.cmd.to
    /\ last.cmd.account \notin last.pre.accounts
    /\ last.cmd.amount = 0
    /\ last.response.result = Err_TransferToMyself
    /\ bank.accounts # {}

\* the last request was a Decrease or Transfer of more than the balance of
\* its (existing) source account
LastExceedsBalance ==
    /\ last.cmd.op \in {"DecreaseAccount", "Transfer"}
    /\ last.cmd.account \in last.pre.accounts
    /\ last.cmd.amount > last.pre.balances[last.cmd.account]

\* C16 as stated: Decrease(A, n) and Transfer(A, B, n) fail with
\* InsufficientFunds whenever n > balance(A), and no balance changes.
C16_ExceedingBalanceIsInsufficientFunds ==
    LastExceedsBalance
        => /\ IsErr(last.response.result)
           /\ last.response.result.kind = "InsufficientFunds"
           /\ bank.balances = last.pre.balances

\* C16 amended: whenever n > balance(A), Decrease(A, n) fails with
\* InsufficientFunds, Transfer(A, B, n) fails, with InsufficientFunds when B
\* exists and differs from A, and no balance changes.
C16_ExceedingBalanceRejected ==
    LastExceedsBalance
        => /\ IsErr(last.response.result)
           /\ bank.balances = last.pre.balances
           /\ LastAccountsValid
                  => last.response.result
                         = Err_InsufficientFunds(last.cmd.amount)

C16_Witness ==
    /\ LastExceedsBalance
    /\ last.cmd.op = "Transfer"
    /\ LastAccountsValid
    /\ last.pre.balances[last.cmd.account] > 0
    /\ last.response.result = Err_InsufficientFunds(last.cmd.amount)
    /\ bank.balances = last.pre.balances

\* C17: round trip: for every existing account A and every amount n > 0,
\* Increase(A, n) followed by Decrease(A, n) both succeed and leave
\* balance(A) as it was before the Increase: in every state the server
\* serves from, and for a Decrease(A, n) request that directly follows the
\* recorded Increase(A, n).
C17_IncreaseDecreaseRoundTrip ==
    /\ alive
           => \A a \in bank.accounts, n \in Amounts \ {0} :
                  LET inc == increase_account(bank, a, n, overflow_checks)
                      dec == decrease_account(inc.bank, a, n)
                  IN /\ IsOk(inc.res)
                     /\ IsOk(dec.res)
                     /\ dec.bank.balances[a] = bank.balances[a]
    /\ (/\ last.cmd.op = "DecreaseAccount"
        /\ Len(last.pre.history) > 0
        /\ last.pre.history[Len(last.pre.history)]
               = Op_IncreaseAccount(last.cmd.account, last.cmd.amount))
           => IsOk(last.response.result)

\* account `a` is the creator, the subject or one side of `operation`
Participates(operation, a) ==
    \/ operation.account = a
    \/ operation.op = "Transfer" /\ operation.to = a

\* every id in an index of Bank b is a history position of b whose entry
\* has the index's account as participant
IndexSound(b) ==
    \A a \in DOMAIN b.account_operations_index :
        \A i \in 1..Len(b.account_operations_index[a]) :
            LET id == b.account_operations_index[a][i]
            IN /\ id \in 0..(Len(b.history) - 1)
               /\ Participates(b.history[id + 1], a)

\* C18: every OperationId stored in the index of account A is a valid
\* history position whose entry has A as participant, in the server's
\* ledger and in a restored one.
C18_IndexEntriesAreParticipations ==
    /\ IndexSound(bank)
    /\ IndexSound(new_bank.bank)

C18_Witness ==
    /\ LastSucceeded("Transfer")
    /\ Len(bank.account_operations_index[TFrom]) >= 3
    /\ Len(bank.account_operations_index[TTo]) >= 2
    /\ IndexSound(bank)

\* CreateAccount(a) is an entry of the history of Bank b
WasCreated(b, a) == PositionsOf(b.history, Op_CreateAccount(a)) # {}

\* C19: GetAccountHistory(A) returns None, not an empty sequence, exactly
\* when A was never created; otherwise it returns the history entries at
\* A's indexed positions in index order, which is chronological, never
\* empty and starts with CreateAccount(A); a just-created account yields
\* <<CreateAccount(A)>>. The response of a GetAccountHistory request is that
\* value.
C19_AccountHistoryNoneIffNeverCreated ==
    /\ \A a \in Names :
           LET h == get_account_history(bank, a)
           IN /\ h.some <=> WasCreated(bank, a)
              /\ ~h.some => h.ops = << >>
              /\ h.some
                   => LET index == bank.account_operations_index[a]
                      IN /\ Len(h.ops) = Len(index)
                         /\ Len(h.ops) >= 1
                         /\ h.ops[1] = Op_CreateAccount(a)
                         /\ \A i \in 1..Len(index) :
                                h.ops[i] = bank.history[index[i] + 1]
                         /\ \A i \in 1..(Len(index) - 1) :
                                index[i] < index[i + 1]
    /\ LastSucceeded("CreateAccount")
           => get_account_history(bank, last.cmd.account)
                  = [some |-> TRUE,
                     ops |-> <<Op_CreateAccount(last.cmd.account)>>]
    /\ last.cmd.op = "GetAccountHistory"
           => /\ last.response.variant = "AccountHistory"
              /\ last.response.some = WasCreated(bank, last.cmd.account)
              /\ last.response.ops
                     = get_account_history(bank, last.cmd.account).ops

C19_Witness ==
    /\ last.cmd.op = "GetAccountHistory"
    /\ last.response.some
    /\ Len(last.response.ops) >= 3
    /\ \E a \in Names : ~get_account_history(bank, a).some

Queries == {"GetHistory", "GetAccountBalance", "GetAccountHistory"}

\* C20: GetBalance, GetHistory and GetAccountHistory are read-only: whether
\* they succeed or fail, accounts, balances, history and indices stay as
\* they were and the server keeps running; GetHistory never fails and
\* returns the complete history in append order.
C20_QueriesReadOnly ==
    /\ last.cmd.op \in Queries
           => /\ bank = last.pre
              /\ alive
              /\ last.response # NoResponse
    /\ last.cmd.op = "GetHistory"
           => /\ last.response.variant = "History"
              /\ last.response.ops = bank.history
    /\ last.cmd.op = "GetAccountBalance"
           => /\ last.response.variant = "AccountBalance"
              /\ IF last.cmd.account \in bank.accounts
                 THEN last.response.result
                          = Ok(bank.balances[last.cmd.account])
                 ELSE IsErr(last.response.result)

C20_Witness ==
    /\ last.cmd.op = "GetHistory"
    /\ client_pc = "commands"
    /\ Len(last.response.ops) >= 3
    /\ last.response.ops = bank.history
    /\ bank = last.pre

\* the Response variant handle_request builds for each command
ExpectedVariant(op) ==
    CASE op = "CreateAccount" -> "Account"
      [] op \in {"IncreaseAccount", "DecreaseAccount"} -> "OperationResult"
      [] op = "Transfer" -> "TransferResult"
      [] op = "GetHistory" -> "History"
      [] op = "GetAccountBalance" -> "AccountBalance"
      [] op = "GetAccountHistory" -> "AccountHistory"
      [] op = "Restore" -> "Restore"

\* C22: each request yields exactly one response, of the variant of its
\* command and carrying the result of the one engine operation invoked for
\* it; a Restore request is one restore call that issues one validating
\* call per listed entry.
C22_OneRequestOneResponse ==
    last.cmd.op # ""
        => /\ last.response.variant = ExpectedVariant(last.cmd.op)
           /\ last.cmd.op \in MutatingOps
                  => LET r == handle_operation(last.pre,
                                  OperationOf(last.cmd), overflow_checks)
                     IN /\ last.response.result = r.res
                        /\ bank = r.bank
           /\ IF last.cmd.op = "Restore"
              THEN Len(last.steps) = Len(last.cmd.history)
              ELSE last.steps = << >>

\* the last request was a Decrease or Transfer of exactly the source
\* account's balance, positive, between existing distinct accounts
LastDrainsBalance ==
    /\ last.cmd.op \in {"DecreaseAccount", "Transfer"}
    /\ LastAccountsValid
    /\ last.cmd.amount > 0
    /\ last.cmd.amount = last.pre.balances[last.cmd.account]

\* C23: Decrease(A, n) and Transfer(A, B, n) with n equal to the balance of
\* A (n > 0, accounts existing and distinct) succeed and leave
\* balance(A) = 0; InsufficientFunds is returned only when n is strictly
\* greater than the balance.
C23_DrainingBalanceSucceeds ==
    /\ LastDrainsBalance
           => /\ IsOk(last.response.result)
              /\ bank.balances[last.cmd.account] = 0
    /\ (/\ last.cmd.op \in {"DecreaseAccount", "Transfer"}
        /\ IsErr(last.response.result)
        /\ last.response.result.kind = "InsufficientFunds")
           => /\ last.cmd.account \in last.pre.accounts
              /\ last.cmd.amount > last.pre.balances[last.cmd.account]

\* the error kinds of the preconditions the last request violates, in the
\* order: self-transfer, unknown source account, unknown destination
\* account, zero amount, insufficient funds (the last for Decrease and
\* Transfer only); a violated precondition that cannot be evaluated because
\* an earlier one failed (the funds of an unknown account) is not listed
ViolatedPreconditions ==
    LET c == last.cmd
        pre == last.pre
        unknown(a) == Err_AccountAlreadyExists(
                          "Account " \o a \o " does not exist")
    IN (IF c.op = "Transfer" /\ c.account = c.to
        THEN <<Err_TransferToMyself>> ELSE << >>)
       \o (IF c.account \notin pre.accounts
           THEN <<unknown(c.account)>> ELSE << >>)
       \o (IF c.op = "Transfer" /\ c.to \notin pre.accounts
           THEN <<unknown(c.to)>> ELSE << >>)
       \o (IF c.amount = 0 THEN <<Err_IncorrectAmount(0)>> ELSE << >>)
       \o (IF /\ c.op \in {"DecreaseAccount", "Transfer"}
              /\ c.account \in pre.accounts
              /\ c.amount > pre.balances[c.account]
           THEN <<Err_InsufficientFunds(c.amount)>> ELSE << >>)

\* C24: when an Increase, Decrease or Transfer violates several
\* preconditions at once, exactly one error is returned and it is the first
\* in the order: self-transfer, unknown `from`, unknown `to`, zero amount,
\* insufficient funds for Transfer; unknown account, zero amount,
\* insufficient funds (Decrease only) for Increase and Decrease.
C24_ErrorPrecedence ==
    (/\ last.cmd.op \in {"IncreaseAccount", "DecreaseAccount", "Transfer"}
     /\ ViolatedPreconditions # << >>)
        => /\ last.response.result = Head(ViolatedPreconditions)
           /\ bank = last.pre

C24_Witness ==
    /\ last.cmd.op = "Transfer"
    /\ Len(ViolatedPreconditions) >= 3
    /\ last.cmd.account # last.cmd.to
    /\ last.response.result = Head(ViolatedPreconditions)

\* the account set, the keys of the balance map and the keys of the
\* per-account index of Bank b are one set
SameKeySets(b) ==
    /\ DOMAIN b.balances = b.accounts
    /\ DOMAIN b.account_operations_index = b.accounts

\* C25: in every reachable state the account set, the key set of the balance
\* map and the key set of the per-account index are the same set, in the
\* server's ledger and in a restored one, so GetAccountHistory(A) returns
\* None exactly when GetBalance(A) fails for an unknown account.
C25_AccountKeySetsAgree ==
    /\ SameKeySets(bank)
    /\ SameKeySets(new_bank.bank)
    /\ \A a \in Names :
           ~get_account_history(bank, a).some
               <=> IsErr(get_account_balance(bank, a))

C25_Witness ==
    /\ bank.accounts = {"X"}
    /\ Len(bank.account_operations_index["X"]) >= 2
    /\ ~get_account_history(bank, "Y").some
    /\ get_account_history(bank, "X").some

\* the index of every account of Bank b lists, strictly increasing, exactly
\* the positions of the history entries the account takes part in, starting
\* with the position of its CreateAccount entry
IndexCompleteAndOrdered(b) ==
    \A a \in b.accounts :
        LET index == b.account_operations_index[a]
            mentions == {i \in 0..(Len(b.history) - 1) :
                             Participates(b.history[i + 1], a)}
        IN /\ \A i \in 1..(Len(index) - 1) : index[i] < index[i + 1]
           /\ {index[i] : i \in 1..Len(index)} = mentions
           /\ index # << >>
           /\ b.history[index[1] + 1] = Op_CreateAccount(a)
           /\ \A i \in mentions : index[1] <= i

\* C26: in every reachable state the index of each account A is complete
\* and ordered: it lists, strictly increasing and without duplicates,
\* exactly the history positions whose entry has A as participant, and its
\* first element is the position of CreateAccount(A), which precedes every
\* other history entry mentioning A; in the server's ledger and in a
\* restored one.
C26_IndexCompleteAndOrdered ==
    /\ IndexCompleteAndOrdered(bank)
    /\ IndexCompleteAndOrdered(new_bank.bank)

C26_Witness ==
    /\ LastSucceeded("Transfer")
    /\ Len(bank.account_operations_index[last.cmd.account]) >= 3
    /\ Len(bank.account_operations_index[last.cmd.to]) >= 2
    /\ bank.account_operations_index[last.cmd.to][1] > 0

\* what the first n history entries add to (positive) or take from
\* (negative) the balance of account a, in unbounded integers
RECURSIVE DerivedBalance(_, _, _)
DerivedBalance(history, a, n) ==
    IF n = 0 THEN 0
    ELSE LET e == history[n]
             credit == IF \/ e.op = "IncreaseAccount" /\ e.account = a
                          \/ e.op = "Transfer" /\ e.to = a
                       THEN e.amount ELSE 0
             debit == IF /\ e.op \in {"DecreaseAccount", "Transfer"}
                         /\ e.account = a
                      THEN e.amount ELSE 0
         IN DerivedBalance(history, a, n - 1) + credit - debit

RECURSIVE SumOver(_, _)
SumOver(f, S) ==
    IF S = {} THEN 0
    ELSE LET a == CHOOSE x \in S : TRUE
         IN f[a] + SumOver(f, S \ {a})

\* C27: in every state of a running server each account's balance equals
\* the value derived from the history (Increase and incoming Transfer
\* amounts minus Decrease and outgoing Transfer amounts), and a successful
\* Transfer leaves the total of all balances unchanged.
C27_BalancesDerivedFromHistory ==
    alive
        => /\ \A a \in bank.accounts :
                  bank.balances[a]
                      = DerivedBalance(bank.history, a, Len(bank.history))
           /\ LastSucceeded("Transfer")
                  => SumOver(bank.balances, bank.accounts)
                         = SumOver(last.pre.balances, last.pre.accounts)

\* the Bank after running, one after the other from the empty Bank, the
\* commands of the first n served connections
RECURSIVE BankAfter(_)
BankAfter(n) ==
    IF n = 0 THEN Bank_new
    ELSE handle_request(BankAfter(n - 1), streams[served[n]].sent,
                        overflow_checks).bank

\* the connections main has accepted and not finished with
Handling == {c \in Streams : streams[c].server = "handling"}

\* C21: commands are served strictly one at a time: with several client
\* connections open, at most one is between accept and the end of its
\* write, the next is accepted only after that; each connection's command
\* is run once, the response a client reads is the one its command yields
\* on the Bank left by the commands served before it, and the ledger of the
\* running server is the result of running the served commands in sequence.
C21_ServedOneAtATime ==
    /\ Cardinality(Handling) <= 1
    /\ alive => Handling = (IF server_pc = "accept" THEN {} ELSE {stream})
    /\ \A i, j \in 1..Len(served) : i # j => served[i] # served[j]
    /\ alive => bank = BankAfter(Len(served))
    /\ \A i \in 1..Len(served) :
           LET c == served[i]
               r == handle_request(BankAfter(i - 1), streams[c].sent,
                                   overflow_checks)
           IN /\ streams[c].server \in {"handling", "done"}
              /\ streams[c].received \in {NoResponse, r.response}
              /\ (alive /\ c = stream /\ server_pc = "write")
                     => response_json = r.response
    /\ \A c \in Streams :
           streams[c].received # NoResponse
               => \E i \in 1..Len(served) : served[i] = c

C21_Witness ==
    /\ alive
    /\ server_pc = "write"
    /\ Len(served) = 2
    /\ streams[served[1]].received # NoResponse
    /\ bank # Bank_new
    /\ \E c \in Streams : /\ streams[c].server = "backlog"
                          /\ streams[c].sent # NoCommand

\* C28: under fair scheduling of the server loop, every client that
\* connects and sends a well-formed request eventually receives its
\* response, whatever other connections do, a connection accepted earlier
\* that never sends any data included. A client that gives up and closes,
\* and a server ended by a panic, are not counted against the claim.
C28_EveryRequestAnswered ==
    \A c \in Streams :
        (streams[c].sent # NoCommand)
            ~> \/ streams[c].received # NoResponse
               \/ streams[c].client = "closed"
               \/ ~alive

====
